---- MODULE Spec2Model ----
(***************************************************************************)
(* A model of the Truth-Social market-signal monitor (src/monitor.py):     *)
(* the cursor pipeline of main(), the retry loop of                        *)
(* fetch_json_with_retries(), the classifier call and the watermark store. *)
(*                                                                         *)
(* Python strings are modelled as sequences of characters.  None and the   *)
(* empty string are both the empty sequence: every test the program makes  *)
(* on an id, a watermark or a proxy is a truthiness test (`if not x`,      *)
(* `x and ...`), which does not tell them apart.                            *)
(***************************************************************************)
EXTENDS Integers, Sequences, FiniteSets, TLC

\* ------------------------------------------------------------------ bounds
\* The longest page of posts the endpoint serves.
MaxPosts == 2
\* How many passes of the retry loop that end without an exception and
\* without a return the model follows in one fetch_json_with_retries() call
\* (the loop itself puts no cap on them).
MaxQuiet == 1

\* ------------------------------------------------------- program constants
\* CONFIDENCE_THRESHOLD = 0.80, in hundredths.
CONFIDENCE_THRESHOLD == 80
\* max_proxy_attempts: int = 5, the default main() uses.
max_proxy_attempts == 5

None == <<>>

\* --------------------------------------------------------------- strings
\* Python's < on str: the first differing character decides, a proper
\* prefix is smaller.  Ids are digit strings, digits are their code points.
StrLess(a, b) ==
    \E k \in 1..Len(b) :
        /\ k <= Len(a) + 1
        /\ \A j \in 1..(k - 1) : a[j] = b[j]
        /\ IF k > Len(a) THEN TRUE ELSE a[k] < b[k]

StrLeq(a, b) == a = b \/ StrLess(a, b)

\* The ids the endpoint can serve: "1" < "10" < "2" as strings.
IdPool == {<<1>>, <<1, 0>>, <<2>>}

\* The end of the leftmost match of <[^>]+> at the start of s, 0 if none.
TagEnd(s) ==
    IF Len(s) >= 3 /\ s[1] = "<" /\ s[2] # ">" /\ \E j \in 3..Len(s) : s[j] = ">"
    THEN CHOOSE j \in 3..Len(s) :
             s[j] = ">" /\ \A i \in 3..(j - 1) : s[i] # ">"
    ELSE 0

RECURSIVE RemoveTags(_)
RemoveTags(s) ==
    IF s = <<>> THEN <<>>
    ELSE IF TagEnd(s) > 0 THEN RemoveTags(SubSeq(s, TagEnd(s) + 1, Len(s)))
    ELSE <<Head(s)>> \o RemoveTags(Tail(s))

RECURSIVE StrStrip(_)
StrStrip(s) ==
    IF s = <<>> THEN <<>>
    ELSE IF Head(s) = " " THEN StrStrip(Tail(s))
    ELSE IF s[Len(s)] = " " THEN StrStrip(SubSeq(s, 1, Len(s) - 1))
    ELSE s

\* re.sub(r"<[^>]+>", "", html or "").strip()
strip_html(html) == StrStrip(RemoveTags(html))

\* The raw bodies the endpoint can serve: "<p> </p>" and "<p>a</p>".
Contents ==
    { <<"<", "p", ">", " ", "<", "/", "p", ">">>,
      <<"<", "p", ">", "a", "<", "/", "p", ">">> }

\* A post of the page: its "id" and "content".  A post without an id is
\* skipped before its content is read, so one such post is enough.
Items ==
    [id : IdPool, content : Contents]
    \cup [id : {None}, content : {<<"<", "p", ">", "a", "<", "/", "p", ">">>}]

RECURSIVE SeqsUpTo(_, _)
SeqsUpTo(S, n) ==
    IF n = 0 THEN {<<>>}
    ELSE LET shorter == SeqsUpTo(S, n - 1)
         IN  shorter \cup {Append(q, x) : q \in {r \in shorter : Len(r) = n - 1}, x \in S}

Batches == SeqsUpTo(Items, MaxPosts)

\* ------------------------------------------------------------ collaborators
\* Proxy addresses: the pinned one (PROXY_URL) and one the free lists hold.
ManualAddr == <<"m">>
PoolAddr == <<"p">>
\* What pick_free_proxy() can return: None, or a verified address (the free
\* lists may hold the pinned address too).
PickResults == {None, PoolAddr, ManualAddr}

\* What one GET of the endpoint can end in:
\*   "json"      status 200, resp.json() decodes
\*   "badjson"   status 200, resp.json() raises
\*   "blocked"   status 403, 429, 502 or 503
\*   "httperror" another status of 400..599 (raise_for_status() raises)
\*   "quiet"     a status other than 200 below 400 (raise_for_status() returns)
\*   "exception" scraper.get() raises (network, timeout)
GetOutcomes == {"json", "badjson", "blocked", "httperror", "quiet", "exception"}
\* The outcomes that reach the except clause of the retry loop.
Raises(result) == result \in {"badjson", "blocked", "httperror", "exception"}

\* What the classifier call can end in: the POST raises or answers a status
\* raise_for_status() rejects ("error"); it answers 2xx with a body that has
\* no choices[0].message.content ("badbody"); or it answers a text, given
\* here by what _cls_pat and _exp_pat last match in it ("" when nothing
\* matches, or when the explanation strips to nothing).
NoLabel == "None"
Replies ==
    [kind : {"error", "badbody"}, cls : {""}, exp : {""}]
    \cup [kind : {"text"}, cls : {"", "BULLISH", "BEARISH", "NEUTRAL"}, exp : {"", "why"}]

\* str.lower() on the labels _cls_pat can capture.
Lower(s) ==
    CASE s = "BULLISH" -> "bullish"
      [] s = "BEARISH" -> "bearish"
      [] s = "NEUTRAL" -> "neutral"
      [] OTHER -> s

\* analyze_post_with_groq() when it returns: (classification, explanation,
\* confidence in hundredths).
analyze_post_with_groq(reply) ==
    IF reply.kind = "error" THEN <<NoLabel, NoLabel, 0>>
    ELSE IF reply.cls # "" /\ reply.exp # "" THEN <<Lower(reply.cls), reply.exp, 100>>
    ELSE <<NoLabel, NoLabel, 0>>

\* r.json()["choices"][0]["message"]["content"] raises outside the try.
AnalyzeRaises(reply) == reply.kind = "badbody"

\* A slip: the test of the result left out.
Rejected_never(res) == FALSE

\* main(): classification is None or conf < CONFIDENCE_THRESHOLD
Rejected(res) == res[1] = NoLabel \/ res[3] < CONFIDENCE_THRESHOLD

\* A slip: only one of the two labels alerts.
Actionable_bullish_only(classification) == classification = "bullish"

\* main(): classification in {"bullish", "bearish"}
Actionable(classification) == classification \in {"bullish", "bearish"}

\* ------------------------------------------------------------------ state
VARIABLES
    store,          \* the post_id of the last_processed document, None if absent
    feed,           \* the page the endpoint serves, newest first by its own account
    pc,             \* where the current run stands
    exit_code,      \* the exit status of the run: -1 while it runs
    MANUAL_PROXY,   \* os.getenv("PROXY_URL"), kept while the fetch that reads it runs
    last_processed, \* main()'s local
    posts,          \* main()'s local
    idx,            \* the position in posts the loop over reversed(posts) is at
    cur,            \* (classification, explanation, conf) of the post at idx
    attempt,        \* fetch_json_with_retries()'s local
    proxy,          \* fetch_json_with_retries()'s local
    requests,       \* GET requests this fetch has issued
    quiet,          \* the passes among them that ended without an exception
    picked,         \* the pick_free_proxy() call made since the last GET
    slept,          \* the waits this fetch has made between requests
    startStore,     \* the store when the run started
    outcome,        \* what became of each post of posts in this run
    calls,          \* the ids analyze_post_with_groq() was called for, in order
    notes,          \* the send_telegram_message() calls of this run, in order
    writes,         \* the update_last_processed() calls of this run, in order
    repeat,         \* this run follows one that ran to its end on the very same page
    prevClean       \* the run before ended normally with nothing left to retry

\* One call of pick_free_proxy(), followed on its own.
VARIABLES
    ppc,            \* where the call stands
    url,            \* how many of the shuffled lists the for loop has taken up
    kind,           \* what the request for the current list answered
    pool,           \* the candidates of the current list, as submitted to the executor
    status,         \* each candidate's probe: queued, running, ok, bad or cancelled
    started,        \* when each probe began to run
    doneAt,         \* when each probe completed
    order,          \* the probes of the current list in the order they completed
    taken,          \* the result the loop over exe.map() waits for
    clock,          \* time.time() - start
    ret             \* the value the call returned

\* One answer of the classifier, parsed on its own.
VARIABLES
    content,        \* r.json()["choices"][0]["message"]["content"]
    parsed          \* what analyze_post_with_groq() returned for it

mainVars ==
    <<store, feed, pc, exit_code, MANUAL_PROXY, last_processed, posts, idx,
      cur, attempt, proxy, requests, quiet, picked, slept, startStore, outcome, calls,
      notes, writes, repeat, prevClean>>

pickVars == <<ppc, url, kind, pool, status, started, doneAt, order, taken, clock, ret>>
parseVars == <<content, parsed>>

vars == <<mainVars, pickVars, parseVars>>

fetchVars == <<attempt, proxy, requests, quiet, picked, slept>>
logVars == <<outcome, calls, notes, writes>>

NoPick == [called |-> FALSE, got |-> None]
NoResult == <<NoLabel, NoLabel, 0>>
Terminal == {"done", "fatal", "crashed"}

\* get_last_processed(): the stored id, None when there is no document or
\* the read raises.
get_last_processed(ok) == IF ok THEN store ELSE None

\* A slip: insert_one() instead of an upsert, so that find_one() keeps
\* returning the first document ever written.
update_insert_once(post_id, ok) == IF ok /\ store = None THEN post_id ELSE store

\* update_last_processed(): the store after the call; a write that raises
\* is logged and leaves it as it was.
update_last_processed(post_id, ok) == IF ok THEN post_id ELSE store

\* The main variables when the module has been loaded and main() has not run.
MainInit ==
    /\ store \in IdPool \cup {None}
    /\ feed \in Batches
    /\ repeat = FALSE
    /\ pc = "boot"
    /\ exit_code = -1
    /\ MANUAL_PROXY = None
    /\ last_processed = None
    /\ posts = <<>>
    /\ idx = 0
    /\ cur = NoResult
    /\ attempt = 0
    /\ proxy = None
    /\ requests = 0
    /\ quiet = 0
    /\ picked = NoPick
    /\ slept = <<>>
    /\ startStore = store
    /\ outcome = <<>>
    /\ calls = <<>>
    /\ notes = <<>>
    /\ writes = <<>>
    /\ prevClean = FALSE

\* No pick_free_proxy() call is under way.
PickIdle ==
    /\ ppc = "idle"
    /\ url = 0
    /\ kind = "none"
    /\ pool = <<>>
    /\ status = <<>>
    /\ started = <<>>
    /\ doneAt = <<>>
    /\ order = <<>>
    /\ taken = 0
    /\ clock = 0
    /\ ret = None

\* No classifier answer is being parsed.
ParseIdle ==
    /\ content = <<>>
    /\ parsed = <<>>

Init == MainInit /\ PickIdle /\ ParseIdle

\* The run that just ended left nothing to retry: it reached the end of
\* main(), no classification failed and no store write failed.
EndedClean ==
    /\ pc = "done"
    /\ \A i \in 1..Len(outcome) : outcome[i] # "failed"
    /\ \A i \in 1..Len(writes) : writes[i].ok

\* The pages the endpoint can serve after page: the same one, or one that
\* gained a newest post, its id above the ids on the page, and keeps its
\* MaxPosts newest.
Published(page) ==
    {page} \cup
    { SubSeq(<<item>> \o page, 1, IF Len(page) < MaxPosts THEN Len(page) + 1 ELSE MaxPosts) :
        item \in {it \in Items :
                     /\ it.id # None
                     /\ \A i \in 1..Len(page) : StrLess(page[i].id, it.id)} }

\* A process starts (the account may have posted since the last one did):
\* the module reads its environment, main() reads the watermark and calls
\* fetch_json_with_retries().
MainStart ==
    /\ pc \in {"boot"} \cup Terminal
    /\ feed' \in Published(feed)
    /\ \E env \in {None, ManualAddr} : MANUAL_PROXY' = env
    /\ \E ok \in BOOLEAN : last_processed' = get_last_processed(ok)
    /\ startStore' = store
    /\ prevClean' = EndedClean
    /\ repeat' = (pc = "done" /\ feed' = feed)
    /\ pc' = "fetch"
    /\ exit_code' = -1
    /\ posts' = <<>>
    /\ idx' = 0
    /\ cur' = NoResult
    /\ attempt' = 0
    /\ proxy' = None
    /\ requests' = 0
    /\ quiet' = 0
    /\ picked' = NoPick
    /\ slept' = <<>>
    /\ outcome' = <<>>
    /\ calls' = <<>>
    /\ notes' = <<>>
    /\ writes' = <<>>
    /\ UNCHANGED store
    /\ UNCHANGED <<pickVars, parseVars>>

\* ------------------------------------------------ fetch_json_with_retries
\* A slip: >= for >, one retry short of the budget.
Exhausted_early(a) == a >= max_proxy_attempts

\* if attempt > max_proxy_attempts: break
Exhausted(a) == a > max_proxy_attempts

\* The retry's route is the pinned proxy, not a pool query:
\* if attempt == 1 and MANUAL_PROXY
UsesManual(a) == a = 1 /\ MANUAL_PROXY # None

\* A slip: when the pool has nothing the route that just failed is kept.
NextProxy_keep(a, pick) ==
    IF UsesManual(a) THEN MANUAL_PROXY ELSE IF pick = None THEN proxy ELSE pick

\* proxy = MANUAL_PROXY or pick_free_proxy(); a falsy proxy becomes None
\* (direct).
NextProxy(a, pick) == IF UsesManual(a) THEN MANUAL_PROXY ELSE pick

\* One pass of the loop whose GET answers 200 with JSON: the function
\* returns it, main() logs the count and enters its loop at the last post.
FetchReturn ==
    /\ pc = "fetch"
    /\ posts' = feed
    /\ outcome' = [i \in 1..Len(feed) |-> "pending"]
    /\ idx' = Len(feed)
    /\ pc' = "loop"
    /\ attempt' = 0
    /\ proxy' = None
    /\ requests' = 0
    /\ quiet' = 0
    /\ picked' = NoPick
    /\ MANUAL_PROXY' = None
    /\ UNCHANGED <<store, feed, exit_code, last_processed, cur,
                   slept, startStore, calls, notes, writes, repeat, prevClean>>
    /\ UNCHANGED <<pickVars, parseVars>>

\* One pass whose GET answers a status that is neither 200 nor one that
\* raise_for_status() rejects: the try block ends without an exception and
\* the while loop starts over, attempt and proxy as they were.
FetchQuiet ==
    /\ pc = "fetch"
    /\ quiet < MaxQuiet
    /\ quiet' = quiet + 1
    /\ \E result \in GetOutcomes : result # "json" /\ ~Raises(result)
    /\ requests' = requests + 1
    /\ picked' = NoPick
    /\ UNCHANGED <<store, feed, pc, exit_code, MANUAL_PROXY, last_processed,
                   posts, idx, cur, attempt, proxy, slept, startStore,
                   outcome, calls, notes, writes, repeat, prevClean>>
    /\ UNCHANGED <<pickVars, parseVars>>

\* One pass that reaches the except clause with attempts left: the route of
\* the next pass is chosen and the loop continues at once.
FetchRetry ==
    /\ pc = "fetch"
    /\ \E result \in GetOutcomes : Raises(result)
    /\ ~Exhausted(attempt + 1)
    /\ requests' = requests + 1
    /\ attempt' = attempt + 1
    /\ \E pick \in PickResults :
        /\ proxy' = NextProxy(attempt + 1, pick)
        /\ picked' = IF UsesManual(attempt + 1) THEN NoPick
                     ELSE [called |-> TRUE, got |-> pick]
    /\ UNCHANGED <<store, feed, pc, exit_code, MANUAL_PROXY, last_processed,
                   posts, idx, cur, quiet, slept, startStore, outcome, calls,
                   notes, writes, repeat, prevClean>>
    /\ UNCHANGED <<pickVars, parseVars>>

\* One pass that reaches the except clause with the budget spent: break,
\* then sys.exit(1).
FetchExhausted ==
    /\ pc = "fetch"
    /\ \E result \in GetOutcomes : Raises(result)
    /\ Exhausted(attempt + 1)
    /\ requests' = requests + 1
    /\ attempt' = attempt + 1
    /\ pc' = "fatal"
    /\ exit_code' = 1
    /\ UNCHANGED <<store, feed, MANUAL_PROXY, last_processed, posts, idx, cur,
                   proxy, quiet, picked, slept, startStore, outcome, calls, notes,
                   writes, repeat, prevClean>>
    /\ UNCHANGED <<pickVars, parseVars>>

\* ------------------------------------------------------------------- main
\* A slip: the page is gone through as listed, newest post first.
post_forward == posts[Len(posts) + 1 - idx]

\* for post in reversed(posts)
post == posts[idx]

\* A slip: < for <=, the watermark's own post is taken up again.
AlreadyProcessed_strict(post_id) ==
    last_processed # None /\ StrLess(post_id, last_processed)

\* if last_processed and post_id <= last_processed
AlreadyProcessed(post_id) ==
    last_processed # None /\ StrLeq(post_id, last_processed)

Mark(what) == [outcome EXCEPT ![idx] = what]

\* if not post_id: continue
LoopSkipNoId ==
    /\ pc = "loop"
    /\ idx >= 1
    /\ post.id = None
    /\ outcome' = Mark("noid")
    /\ idx' = idx - 1
    /\ UNCHANGED <<store, feed, pc, exit_code, MANUAL_PROXY, last_processed,
                   posts, cur, fetchVars, startStore, calls, notes, writes, repeat, prevClean>>
    /\ UNCHANGED <<pickVars, parseVars>>

\* "already processed": continue
LoopSkipProcessed ==
    /\ pc = "loop"
    /\ idx >= 1
    /\ post.id # None
    /\ AlreadyProcessed(post.id)
    /\ outcome' = Mark("skipped")
    /\ idx' = idx - 1
    /\ UNCHANGED <<store, feed, pc, exit_code, MANUAL_PROXY, last_processed,
                   posts, cur, fetchVars, startStore, calls, notes, writes, repeat, prevClean>>
    /\ UNCHANGED <<pickVars, parseVars>>

\* The post has no text: update_last_processed(post_id); continue
LoopEmptyText ==
    /\ pc = "loop"
    /\ idx >= 1
    /\ post.id # None
    /\ ~AlreadyProcessed(post.id)
    /\ strip_html(post.content) = <<>>
    /\ \E ok \in BOOLEAN :
        /\ store' = update_last_processed(post.id, ok)
        /\ writes' = Append(writes, [id |-> post.id, ok |-> ok])
    /\ outcome' = Mark("empty")
    /\ idx' = idx - 1
    /\ UNCHANGED <<feed, pc, exit_code, MANUAL_PROXY, last_processed, posts,
                   cur, fetchVars, startStore, calls, notes, repeat, prevClean>>
    /\ UNCHANGED <<pickVars, parseVars>>

ToAnalyze ==
    /\ pc = "loop"
    /\ idx >= 1
    /\ post.id # None
    /\ ~AlreadyProcessed(post.id)
    /\ strip_html(post.content) # <<>>

\* analyze_post_with_groq() returns a result main() rejects: "will retry
\* later", continue.
LoopAnalyzeRejected ==
    /\ ToAnalyze
    /\ \E reply \in Replies :
        /\ ~AnalyzeRaises(reply)
        /\ Rejected(analyze_post_with_groq(reply))
    /\ calls' = Append(calls, post.id)
    /\ outcome' = Mark("failed")
    /\ idx' = idx - 1
    /\ UNCHANGED <<store, feed, pc, exit_code, MANUAL_PROXY, last_processed,
                   posts, cur, fetchVars, startStore, notes, writes, repeat, prevClean>>
    /\ UNCHANGED <<pickVars, parseVars>>

\* analyze_post_with_groq() raises: nothing in main() catches it and the
\* process ends with a traceback.
LoopAnalyzeRaises ==
    /\ ToAnalyze
    /\ \E reply \in Replies : AnalyzeRaises(reply)
    /\ calls' = Append(calls, post.id)
    /\ outcome' = Mark("raised")
    /\ pc' = "crashed"
    /\ exit_code' = 1
    /\ UNCHANGED <<store, feed, MANUAL_PROXY, last_processed, posts, idx, cur,
                   fetchVars, startStore, notes, writes, repeat, prevClean>>
    /\ UNCHANGED <<pickVars, parseVars>>

\* analyze_post_with_groq() returns a result main() accepts.
LoopAnalyzeAccepted ==
    /\ ToAnalyze
    /\ \E reply \in Replies :
        /\ ~AnalyzeRaises(reply)
        /\ ~Rejected(analyze_post_with_groq(reply))
        /\ cur' = analyze_post_with_groq(reply)
    /\ calls' = Append(calls, post.id)
    /\ outcome' = Mark(cur'[1])
    /\ pc' = IF Actionable(cur'[1]) THEN "notify" ELSE "advance"
    /\ UNCHANGED <<store, feed, exit_code, MANUAL_PROXY, last_processed, posts,
                   idx, fetchVars, startStore, notes, writes, repeat, prevClean>>
    /\ UNCHANGED <<pickVars, parseVars>>

\* What a send_telegram_message() call can meet: the message goes out
\* ("sent"), TELEGRAM_TOKEN or CHAT_ID is missing ("nocreds"), the POST
\* raises ("raised") or answers a status raise_for_status() rejects
\* ("httperror").
NotifyOutcomes == {"sent", "nocreds", "raised", "httperror"}

\* A slip: the POST outside the try block.
send_telegram_message_unguarded(met) ==
    IF met \in {"raised", "httperror"} THEN "raises" ELSE "returns"

\* send_telegram_message(): how the call ends.  Missing credentials return
\* early, and the try block covers the scraper, the POST and
\* raise_for_status().
send_telegram_message(met) == "returns"

\* The call for a bullish or bearish post, update_last_processed() next.
LoopNotify ==
    /\ pc = "notify"
    /\ \E met \in NotifyOutcomes :
        /\ notes' = Append(notes, [id |-> post.id, label |-> cur[1], sent |-> met = "sent"])
        /\ pc' = IF send_telegram_message(met) = "returns" THEN "advance" ELSE "crashed"
        /\ exit_code' = IF send_telegram_message(met) = "returns" THEN exit_code ELSE 1
    /\ UNCHANGED <<store, feed, MANUAL_PROXY, last_processed, posts,
                   idx, cur, fetchVars, startStore, outcome, calls, writes, repeat, prevClean>>
    /\ UNCHANGED <<pickVars, parseVars>>

\* update_last_processed(post_id) at the end of the loop body.
LoopAdvance ==
    /\ pc = "advance"
    /\ \E ok \in BOOLEAN :
        /\ store' = update_last_processed(post.id, ok)
        /\ writes' = Append(writes, [id |-> post.id, ok |-> ok])
    /\ cur' = NoResult
    /\ idx' = idx - 1
    /\ pc' = "loop"
    /\ UNCHANGED <<feed, exit_code, MANUAL_PROXY, last_processed, posts,
                   fetchVars, startStore, outcome, calls, notes, repeat, prevClean>>
    /\ UNCHANGED <<pickVars, parseVars>>

\* "Run completed successfully."
MainDone ==
    /\ pc = "loop"
    /\ idx = 0
    /\ pc' = "done"
    /\ exit_code' = 0
    /\ UNCHANGED <<store, feed, MANUAL_PROXY, last_processed, posts, idx, cur,
                   fetchVars, startStore, outcome, calls, notes, writes, repeat, prevClean>>
    /\ UNCHANGED <<pickVars, parseVars>>

Next ==
    \/ MainStart
    \/ FetchReturn
    \/ FetchQuiet
    \/ FetchRetry
    \/ FetchExhausted
    \/ LoopSkipNoId
    \/ LoopSkipProcessed
    \/ LoopEmptyText
    \/ LoopAnalyzeRejected
    \/ LoopAnalyzeRaises
    \/ LoopAnalyzeAccepted
    \/ LoopNotify
    \/ LoopAdvance
    \/ MainDone

Spec == Init /\ [][Next]_vars

\* ---------------------------------------------------------- pick_free_proxy
\* How many of FREE_LISTS the call is followed through.
MaxLists == 2
\* The candidates kept of one list: stands for MAX_CANDIDATES.
MaxCandidates == 3
\* The threads of the executor: stands for max_workers.
MaxWorkers == 2

\* PICKER_TIMEOUT = 20, TEST_TIMEOUT = 5, and requests.get(url, timeout=7):
\* seconds.  A request is taken to last no longer than its timeout.
PICKER_TIMEOUT == 20
TEST_TIMEOUT == 5
LIST_TIMEOUT == 7

\* The lines a proxy list can hold: host:port, with a scheme or without.
Lines ==
    { [scheme |-> FALSE, host |-> "a"],
      [scheme |-> FALSE, host |-> "b"],
      [scheme |-> TRUE, host |-> "c"] }

\* proxy if "://" in proxy else f"http://{proxy}"
WithScheme(p) == [p EXCEPT !.scheme = TRUE]

\* The orders random.shuffle(pool) can leave the lines of a body in.
Shuffles(body) ==
    {q \in SeqsUpTo(body, Cardinality(body)) :
        Len(q) = Cardinality(body) /\ \A i, j \in 1..Len(q) : i # j => q[i] # q[j]}

\* pool[:MAX_CANDIDATES]
Truncate(q) == SubSeq(q, 1, IF Len(q) < MaxCandidates THEN Len(q) ELSE MaxCandidates)

\* What requests.get(url, timeout=7).text can end in: the request raises, or
\* it answers, with status 200 or another one, a body of these lines.
ListReplies ==
    [kind : {"exception"}, body : {{}}]
    \cup [kind : {"ok", "non200"}, body : SUBSET Lines]

\* def timed_out(): return time.time() - start > PICKER_TIMEOUT
timed_out == clock > PICKER_TIMEOUT

Probes == 1..Len(pool)
Running == {i \in Probes : status[i] = "running"}
Queued == {i \in Probes : status[i] = "queued"}
MinOf(S) == CHOOSE m \in S : \A x \in S : m <= x

\* The loop over zip(pool, exe.map(...)) has a result to take up.
MainReady == ppc = "test" /\ status[taken] \in {"ok", "bad"}

\* pick_free_proxy() is called: start = time.time(), the lists are shuffled.
PickCall ==
    /\ ppc \in {"idle", "returned"}
    /\ ppc' = "loop"
    /\ url' = 0
    /\ kind' = "none"
    /\ pool' = <<>>
    /\ status' = <<>>
    /\ started' = <<>>
    /\ doneAt' = <<>>
    /\ order' = <<>>
    /\ taken' = 0
    /\ clock' = 0
    /\ ret' = None
    /\ UNCHANGED <<mainVars, parseVars>>

\* The for loop is over, or timed_out() breaks it: return None.
PickNone ==
    /\ ppc = "loop"
    /\ url = MaxLists \/ timed_out
    /\ ppc' = "returned"
    /\ ret' = None
    /\ UNCHANGED <<url, kind, pool, status, started, doneAt, order, taken, clock>>
    /\ UNCHANGED <<mainVars, parseVars>>

\* The request for the next list raises: the except clause logs it and the
\* loop goes to the list after.
ListFails ==
    /\ ppc = "loop"
    /\ url < MaxLists /\ ~timed_out
    /\ \E d \in {0, LIST_TIMEOUT} : clock' = clock + d
    /\ url' = url + 1
    /\ kind' = "exception"
    /\ pool' = <<>>
    /\ status' = <<>>
    /\ started' = <<>>
    /\ doneAt' = <<>>
    /\ order' = <<>>
    /\ taken' = 0
    /\ UNCHANGED <<ppc, ret>>
    /\ UNCHANGED <<mainVars, parseVars>>

\* The request answers a body without a line: if not pool: continue.
ListEmpty ==
    /\ ppc = "loop"
    /\ url < MaxLists /\ ~timed_out
    /\ \E d \in {0, LIST_TIMEOUT} : clock' = clock + d
    /\ \E reply \in ListReplies :
        /\ reply.kind # "exception"
        /\ reply.body = {}
        /\ kind' = reply.kind
    /\ url' = url + 1
    /\ pool' = <<>>
    /\ status' = <<>>
    /\ started' = <<>>
    /\ doneAt' = <<>>
    /\ order' = <<>>
    /\ taken' = 0
    /\ UNCHANGED <<ppc, ret>>
    /\ UNCHANGED <<mainVars, parseVars>>

\* The request answers a body with lines: they are shuffled, cut to
\* MAX_CANDIDATES and all submitted to the executor by exe.map(), whose
\* threads take them up in that order.
ListSubmit ==
    /\ ppc = "loop"
    /\ url < MaxLists /\ ~timed_out
    /\ \E d \in {0, LIST_TIMEOUT} : clock' = clock + d
    /\ \E reply \in ListReplies :
        /\ reply.kind # "exception"
        /\ reply.body # {}
        /\ kind' = reply.kind
        /\ \E q \in Shuffles(reply.body) : pool' = Truncate(q)
    /\ url' = url + 1
    /\ status' = [i \in 1..Len(pool') |-> IF i <= MaxWorkers THEN "running" ELSE "queued"]
    /\ started' = [i \in 1..Len(pool') |-> IF i <= MaxWorkers THEN clock' ELSE -1]
    /\ doneAt' = [i \in 1..Len(pool') |-> -1]
    /\ order' = <<>>
    /\ taken' = 1
    /\ ppc' = "test"
    /\ UNCHANGED ret
    /\ UNCHANGED <<mainVars, parseVars>>

\* _proxy_works() returns in one thread, at once or when its request times
\* out, and no later than any probe still running must end; the thread takes
\* up the next queued candidate.  Time does not pass while the main thread
\* has a result to take up.
ProbeDone ==
    /\ ppc \in {"test", "exit"}
    /\ \E i \in Running, ok \in BOOLEAN : \E t \in {clock, started[i] + TEST_TIMEOUT} :
        /\ t >= clock
        /\ \A j \in Running : t <= started[j] + TEST_TIMEOUT
        /\ t > clock => ~MainReady
        /\ clock' = t
        /\ doneAt' = [doneAt EXCEPT ![i] = t]
        /\ order' = Append(order, i)
        /\ LET done == [status EXCEPT ![i] = IF ok THEN "ok" ELSE "bad"]
           IN  IF Queued = {}
               THEN status' = done /\ UNCHANGED started
               ELSE /\ status' = [done EXCEPT ![MinOf(Queued)] = "running"]
                    /\ started' = [started EXCEPT ![MinOf(Queued)] = t]
    /\ UNCHANGED <<ppc, url, kind, pool, taken, ret>>
    /\ UNCHANGED <<mainVars, parseVars>>

\* The result the loop waits for is False: the next one; after the last one
\* the with block ends (every probe has completed) and the for loop goes on.
TakeBad ==
    /\ ppc = "test"
    /\ status[taken] = "bad"
    /\ IF taken < Len(pool)
       THEN /\ taken' = taken + 1
            /\ UNCHANGED <<ppc, pool, status, started, doneAt, order>>
       ELSE /\ ppc' = "loop"
            /\ taken' = 0
            /\ pool' = <<>>
            /\ status' = <<>>
            /\ started' = <<>>
            /\ doneAt' = <<>>
            /\ order' = <<>>
    /\ UNCHANGED <<url, kind, clock, ret>>
    /\ UNCHANGED <<mainVars, parseVars>>

\* The result the loop waits for is True: return.  Leaving the loop closes
\* the iterator of exe.map(), which cancels the probes not yet started; the
\* with block then shuts the executor down and waits for the running ones.
TakeOk ==
    /\ ppc = "test"
    /\ status[taken] = "ok"
    /\ ret' = WithScheme(pool[taken])
    /\ status' = [i \in Probes |-> IF status[i] = "queued" THEN "cancelled" ELSE status[i]]
    /\ ppc' = "exit"
    /\ UNCHANGED <<url, kind, pool, started, doneAt, order, taken, clock>>
    /\ UNCHANGED <<mainVars, parseVars>>

\* The executor has shut down: the caller gets the value.
PickReturn ==
    /\ ppc = "exit"
    /\ Running = {}
    /\ ppc' = "returned"
    /\ UNCHANGED <<url, kind, pool, status, started, doneAt, order, taken, clock, ret>>
    /\ UNCHANGED <<mainVars, parseVars>>

PickInit ==
    /\ MainInit
    /\ store = None
    /\ feed = <<>>
    /\ PickIdle
    /\ ParseIdle

PickNext ==
    \/ PickCall
    \/ PickNone
    \/ ListFails
    \/ ListEmpty
    \/ ListSubmit
    \/ ProbeDone
    \/ TakeBad
    \/ TakeOk
    \/ PickReturn

SpecPick == PickInit /\ [][PickNext]_vars

\* ------------------------------------------------- parsing of the answer
\* The longest answer followed, in tokens.
MaxText == 6

\* An answer of the classifier is a sequence of tokens: "cls:" stands for a
\* text `classification\s*:` matches (in any case), "exp:" for one
\* `explanation\s*:` matches, "BULLISH" and "bearish" for labels as written,
\* " " for a blank and "\n" for a line break.
Alphabet == {"cls:", "exp:", "BULLISH", "bearish", " ", "\n"}
LabelTokens == {"BULLISH", "bearish"}
Texts == SeqsUpTo(Alphabet, MaxText)

\* \s matches a blank and a line break; . matches all but a line break.
IsSpace(c) == c \in {" ", "\n"}

\* Where \s* stops when it starts at p and takes all it can.
RECURSIVE SkipSpace(_, _)
SkipSpace(text, p) ==
    IF p <= Len(text) /\ IsSpace(text[p]) THEN SkipSpace(text, p + 1) ELSE p

\* Where .+ stops when it starts at p and takes all it can.
RECURSIVE LineEnd(_, _)
LineEnd(text, p) ==
    IF p < Len(text) /\ text[p + 1] # "\n" THEN LineEnd(text, p + 1) ELSE p

\* _cls_pat at p: the place of the label it captures, 0 when it does not
\* match there.
ClsGroup(text, p) ==
    IF text[p] # "cls:" THEN 0
    ELSE LET q == SkipSpace(text, p + 1)
         IN  IF q <= Len(text) /\ text[q] \in LabelTokens THEN q ELSE 0

\* _exp_pat at p: the place its capture starts, 0 when it does not match
\* there.  \s* takes all the white space it can; when nothing is left for
\* .+ it gives back as little as lets .+ match, which is down to the last
\* blank.
ExpGroup(text, p) ==
    IF text[p] # "exp:" THEN 0
    ELSE LET q == SkipSpace(text, p + 1)
             blanks == {k \in (p + 1)..Len(text) : text[k] = " "}
         IN  IF q <= Len(text) THEN q
             ELSE IF blanks # {} THEN CHOOSE k \in blanks : \A j \in blanks : j <= k
             ELSE 0

\* regex.findall(text) from p on: the captures of the matches, found left to
\* right, each search starting where the match before ended.
RECURSIVE FindAllCls(_, _)
FindAllCls(text, p) ==
    IF p > Len(text) THEN <<>>
    ELSE IF ClsGroup(text, p) > 0
         THEN <<SubSeq(text, ClsGroup(text, p), ClsGroup(text, p))>>
                  \o FindAllCls(text, ClsGroup(text, p) + 1)
    ELSE FindAllCls(text, p + 1)

RECURSIVE FindAllExp(_, _)
FindAllExp(text, p) ==
    IF p > Len(text) THEN <<>>
    ELSE IF ExpGroup(text, p) > 0
         THEN LET from == ExpGroup(text, p)
                  to == LineEnd(text, from)
              IN  <<SubSeq(text, from, to)>> \o FindAllExp(text, to + 1)
    ELSE FindAllExp(text, p + 1)

\* A slip: the first match for the last.
last_match_first(matches) ==
    IF matches = <<>> THEN None ELSE StrStrip(matches[1])

\* _last_match(): matches[-1].strip() if matches else None
last_match(matches) ==
    IF matches = <<>> THEN None ELSE StrStrip(matches[Len(matches)])

\* classification.lower()
LowerSeq(s) == [i \in 1..Len(s) |-> Lower(s[i])]

\* analyze_post_with_groq() from the content on: (classification,
\* explanation, confidence in hundredths).
ParseAnswer(text) ==
    LET classification == last_match(FindAllCls(text, 1))
        explanation == last_match(FindAllExp(text, 1))
    IN  IF classification # None /\ explanation # None
        THEN <<LowerSeq(classification), explanation, 100>>
        ELSE <<None, None, 0>>

\* The classifier has answered: the content is parsed and the tuple returned.
AnalyzeReturn ==
    /\ parsed = <<>>
    /\ parsed' = ParseAnswer(content)
    /\ UNCHANGED content
    /\ UNCHANGED <<mainVars, pickVars>>

ParseInit ==
    /\ MainInit
    /\ store = None
    /\ feed = <<>>
    /\ PickIdle
    /\ content \in Texts
    /\ parsed = <<>>

ParseNext == AnalyzeReturn

SpecParse == ParseInit /\ [][ParseNext]_vars

\* ------------------------------------- truth_social_monitor.py, the earlier
\* variant of the pipeline.  It keeps its watermark in the same collection,
\* with the same get_last_processed() and update_last_processed() (a read
\* that raises gives None, a write that raises is logged), and is followed
\* here with the variables of main(): idx runs over posts as listed, first
\* to last, and cur[1] is the label classify_post() returned.
\* The longest page of posts the scraper finds.
MaxPage == 3

\* A div of class "post": its id attribute, and whether it holds a div of
\* class "post-text".  A post without an id is skipped before its text is
\* looked for, and a post without a text is skipped whatever its id: one of
\* each is enough.
OldItems ==
    [id : IdPool, text : {TRUE}]
    \cup {[id |-> None, text |-> TRUE], [id |-> <<1>>, text |-> FALSE]}
OldPages == SeqsUpTo(OldItems, MaxPage)

\* classify_post(): result['labels'][0], or None when the request fails.
OldLabels == {"buy stocks", "sell stocks", "neutral", NoLabel}

\* classification in ['buy stocks', 'sell stocks']
OldActionable(classification) == classification \in {"buy stocks", "sell stocks"}

oldRest ==
    <<exit_code, MANUAL_PROXY, attempt, proxy, requests, quiet, picked, slept,
      outcome, calls>>

\* The run that just ended was over a page of the kind the idempotence rule
\* is about: listed newest first, every post with an id and a text, the
\* watermark the run read (the stored one) on the page with several newer
\* posts before it, and every write of the run went through.
OldCase ==
    /\ pc = "done"
    /\ posts # <<>>
    /\ \A i \in 1..Len(posts) : posts[i].id # None /\ posts[i].text
    /\ \A i, j \in 1..Len(posts) : i < j => StrLess(posts[j].id, posts[i].id)
    /\ last_processed = startStore
    /\ \E w \in 3..Len(posts) : posts[w].id = startStore
    /\ \A k \in 1..Len(writes) : writes[k].ok

\* A process starts: main() reads the watermark and requests the page.
\* The request raises requests.RequestException, or no post is found: the
\* run is over.
OldStartNothing ==
    /\ pc \in {"boot", "done"}
    /\ \E ok \in BOOLEAN : last_processed' = get_last_processed(ok)
    /\ startStore' = store
    /\ prevClean' = OldCase
    /\ repeat' = FALSE
    /\ posts' = <<>>
    /\ idx' = 0
    /\ cur' = NoResult
    /\ notes' = <<>>
    /\ writes' = <<>>
    /\ pc' = "done"
    /\ UNCHANGED <<store, feed>>
    /\ UNCHANGED <<oldRest, pickVars, parseVars>>

\* A process starts and the page has posts: the loop begins at the first.
OldStart ==
    /\ pc \in {"boot", "done"}
    /\ feed # <<>>
    /\ \E ok \in BOOLEAN : last_processed' = get_last_processed(ok)
    /\ startStore' = store
    /\ prevClean' = OldCase
    /\ repeat' = (pc = "done" /\ posts = feed)
    /\ posts' = feed
    /\ idx' = 1
    /\ cur' = NoResult
    /\ notes' = <<>>
    /\ writes' = <<>>
    /\ pc' = "scan"
    /\ UNCHANGED <<store, feed>>
    /\ UNCHANGED <<oldRest, pickVars, parseVars>>

OldScanning == pc = "scan" /\ idx <= Len(posts)

\* if not post_id: continue
OldSkipNoId ==
    /\ OldScanning
    /\ posts[idx].id = None
    /\ idx' = idx + 1
    /\ UNCHANGED <<store, feed, pc, last_processed, posts, cur, startStore,
                   notes, writes, repeat, prevClean>>
    /\ UNCHANGED <<oldRest, pickVars, parseVars>>

\* if post_id == last_processed: break; or the for loop is over.
OldDone ==
    /\ pc = "scan"
    /\ \/ idx > Len(posts)
       \/ idx <= Len(posts) /\ posts[idx].id # None /\ posts[idx].id = last_processed
    /\ pc' = "done"
    /\ UNCHANGED <<store, feed, last_processed, posts, idx, cur, startStore,
                   notes, writes, repeat, prevClean>>
    /\ UNCHANGED <<oldRest, pickVars, parseVars>>

\* if not post_text_elem: continue
OldNoText ==
    /\ OldScanning
    /\ posts[idx].id # None
    /\ posts[idx].id # last_processed
    /\ ~posts[idx].text
    /\ idx' = idx + 1
    /\ UNCHANGED <<store, feed, pc, last_processed, posts, cur, startStore,
                   notes, writes, repeat, prevClean>>
    /\ UNCHANGED <<oldRest, pickVars, parseVars>>

\* classification = classify_post(post_text)
OldClassify ==
    /\ OldScanning
    /\ posts[idx].id # None
    /\ posts[idx].id # last_processed
    /\ posts[idx].text
    /\ \E label \in OldLabels :
        /\ cur' = <<label, NoLabel, 0>>
        /\ pc' = IF OldActionable(label) THEN "notify" ELSE "advance"
    /\ UNCHANGED <<store, feed, last_processed, posts, idx, startStore,
                   notes, writes, repeat, prevClean>>
    /\ UNCHANGED <<oldRest, pickVars, parseVars>>

\* send_telegram_message(message): delivered, or the failure is logged.
OldNotify ==
    /\ pc = "notify"
    /\ \E sent \in BOOLEAN :
        notes' = Append(notes, [id |-> posts[idx].id, label |-> cur[1], sent |-> sent])
    /\ pc' = "advance"
    /\ UNCHANGED <<store, feed, last_processed, posts, idx, cur, startStore,
                   writes, repeat, prevClean>>
    /\ UNCHANGED <<oldRest, pickVars, parseVars>>

\* update_last_processed(post_id), then the next post of the page.
OldAdvance ==
    /\ pc = "advance"
    /\ \E ok \in BOOLEAN :
        /\ store' = update_last_processed(posts[idx].id, ok)
        /\ writes' = Append(writes, [id |-> posts[idx].id, ok |-> ok])
    /\ cur' = NoResult
    /\ idx' = idx + 1
    /\ pc' = "scan"
    /\ UNCHANGED <<feed, last_processed, posts, startStore, notes, repeat, prevClean>>
    /\ UNCHANGED <<oldRest, pickVars, parseVars>>

OldInit ==
    /\ store \in IdPool \cup {None}
    /\ feed \in OldPages
    /\ repeat = FALSE
    /\ pc = "boot"
    /\ exit_code = -1
    /\ MANUAL_PROXY = None
    /\ last_processed = None
    /\ posts = <<>>
    /\ idx = 0
    /\ cur = NoResult
    /\ attempt = 0
    /\ proxy = None
    /\ requests = 0
    /\ quiet = 0
    /\ picked = NoPick
    /\ slept = <<>>
    /\ startStore = store
    /\ outcome = <<>>
    /\ calls = <<>>
    /\ notes = <<>>
    /\ writes = <<>>
    /\ prevClean = FALSE
    /\ PickIdle
    /\ ParseIdle

OldNext ==
    \/ OldStartNothing
    \/ OldStart
    \/ OldSkipNoId
    \/ OldDone
    \/ OldNoText
    \/ OldClassify
    \/ OldNotify
    \/ OldAdvance

SpecOld == OldInit /\ [][OldNext]_vars

\* ----------------------------------------------------------------- claims
Positions == 1..Len(posts)
Labels == {"bullish", "bearish", "neutral"}
Ended == pc \in {"done", "crashed"}

\* The posts that reached a terminal outcome in this run: no text, or
\* classified and accepted.
Settled == {i \in Positions : outcome[i] \in Labels \cup {"empty"}}
Classified == {i \in Positions : outcome[i] \in Labels}

IdsAt(I) == {posts[i].id : i \in I}
MaxId(S) == CHOOSE m \in S : \A x \in S : StrLeq(x, m)

\* The page lists its posts newest first: ids strictly decreasing (posts
\* without an id aside), so that the loop takes them in increasing order.
NewestFirst(page) ==
    \A i \in 1..Len(page), j \in 1..Len(page) :
        (i < j /\ page[i].id # None /\ page[j].id # None)
            => StrLess(page[j].id, page[i].id)

DistinctIds(page) ==
    \A i \in 1..Len(page), j \in 1..Len(page) : i # j => page[i].id # page[j].id

AllHaveIds(page) == \A i \in 1..Len(page) : page[i].id # None

\* Every id of the page is above the watermark the run works from.
AboveWatermark(page) ==
    \A i \in 1..Len(page) : last_processed = None \/ StrLess(last_processed, page[i].id)

WritesSucceeded == \A k \in 1..Len(writes) : writes[k].ok

C1_Batch ==
    /\ AllHaveIds(posts)
    /\ NewestFirst(posts)
    /\ AboveWatermark(posts)
    /\ WritesSucceeded

\* C1 as stated: after a run over a batch of distinct ids above the starting
\* watermark, newest first, with every store write succeeding, the watermark
\* is the largest id among the posts with text that were classified, or the
\* largest id of the batch if no post had text.
C1_MaxClassified ==
    (pc = "done" /\ C1_Batch /\ posts # <<>>)
        => /\ (\A i \in Positions : outcome[i] = "empty") => store = MaxId(IdsAt(Positions))
           /\ Classified # {} => store = MaxId(IdsAt(Classified))

\* C1 as amended: after such a run the watermark is the largest id among the
\* posts that had no text or were classified, and is what it was when the
\* run started if there is no such post.
C1_MaxSettled ==
    (Ended /\ C1_Batch)
        => store = IF Settled = {} THEN startStore ELSE MaxId(IdsAt(Settled))

\* A run over two posts: the older one classified, the newer one without
\* text, which the watermark ends on.
C1_Witness ==
    /\ pc = "done"
    /\ C1_Batch
    /\ Len(posts) = 2
    /\ outcome[2] = "bearish"
    /\ outcome[1] = "empty"
    /\ store = posts[1].id
    /\ store # startStore

\* C2: a post above the starting watermark whose classification failed in a
\* run is not covered by the watermark when the run ends (the watermark is
\* below its id), whatever became of the other posts of the batch.
C2_FailedNotCovered ==
    Ended =>
        \A i \in Positions :
            (outcome[i] = "failed" /\ (startStore = None \/ StrLess(startStore, posts[i].id)))
                => (store = None \/ StrLess(store, posts[i].id))

NoteCount(id) == Cardinality({k \in 1..Len(notes) : notes[k].id = id})

\* The post with this id is one main() has to alert for: above the watermark
\* the run works from, with text, classified bullish or bearish.
Alertable(id) ==
    \E i \in Positions :
        /\ posts[i].id = id
        /\ (last_processed = None \/ StrLess(last_processed, id))
        /\ strip_html(posts[i].content) # <<>>
        /\ outcome[i] \in {"bullish", "bearish"}

\* C3: in a run over a batch of distinct ids no id is ever notified twice,
\* and when the run has ended an id has been notified once if its post is
\* above the starting watermark, has text and was classified bullish or
\* bearish, and not at all otherwise.
C3_OneNotification ==
    DistinctIds(posts) =>
        /\ \A id \in IdPool \cup {None} : NoteCount(id) <= 1
        /\ Ended =>
            \A id \in IdPool \cup {None} :
                NoteCount(id) = IF Alertable(id) THEN 1 ELSE 0

\* A run over two posts: the older one fails classification, the newer one
\* is bearish and notified once.
C3_Witness ==
    /\ pc = "done"
    /\ DistinctIds(posts)
    /\ Len(posts) = 2
    /\ outcome[2] = "failed"
    /\ outcome[1] = "bearish"
    /\ NoteCount(posts[1].id) = 1
    /\ NoteCount(posts[2].id) = 0


C5_Skipped ==
    \A i \in Positions :
        (last_processed # None /\ posts[i].id # None /\ StrLeq(posts[i].id, last_processed))
            => /\ \A k \in 1..Len(calls) : calls[k] # posts[i].id
               /\ \A k \in 1..Len(notes) : notes[k].id # posts[i].id
               /\ \A k \in 1..Len(writes) : writes[k].id # posts[i].id

C5_Monotone ==
    [][ (NewestFirst(feed) /\ store # None) => (store' # None /\ StrLeq(store, store')) ]_vars
    /\ []C5_Skipped

\* C6: one fetch issues at most max_proxy_attempts + 1 requests, whatever
\* each of them ends in.
C6_RequestBudget ==
    requests <= max_proxy_attempts + 1

\* C7: the run ends fatally exactly when the fetch has used up its budget
\* (the failure after max_proxy_attempts retries), with exit status 1 and
\* nothing processed: no posts, no classifier call, no notification, no
\* store write, the watermark as it was.
C7_FatalNoProcessing ==
    /\ pc = "fetch" => attempt <= max_proxy_attempts
    /\ pc = "fatal" =>
        /\ attempt = max_proxy_attempts + 1
        /\ exit_code = 1
        /\ posts = <<>>
        /\ calls = <<>>
        /\ notes = <<>>
        /\ writes = <<>>
        /\ store = startStore
    /\ pc \in {"loop", "notify", "advance", "done", "crashed"} => attempt = 0

\* The fetch gave up while the page held a post the watermark does not cover.
C7_Witness ==
    /\ pc = "fatal"
    /\ exit_code = 1
    /\ Len(feed) = 2
    /\ AllHaveIds(feed)
    /\ store = None
    /\ last_processed = None

\* C8: no classifier failure ends the run: each yields (None, None, 0.0),
\* the post is left for later and the loop goes on.
C8_ClassifierNeverFatal ==
    /\ pc # "crashed"
    /\ \A i \in Positions : outcome[i] # "raised"

\* C9: a wait precedes every request but the first, each wait twice the one
\* before it.
C9_Backoff ==
    pc = "fetch" =>
        /\ Len(slept) = requests
        /\ \A k \in 2..Len(slept) : slept[k] = 2 * slept[k - 1]

\* C10: the first request is direct; with a pinned proxy the second request
\* goes through it and the pool is not asked; every other request after the
\* first uses what a pool query made after the failure before it returned.
C10_Routes ==
    pc = "fetch" =>
        /\ requests = 0 => proxy = None
        /\ (requests = 1 /\ MANUAL_PROXY # None)
            => (proxy = MANUAL_PROXY /\ ~picked.called)
        /\ (requests >= 1 /\ ~(requests = 1 /\ MANUAL_PROXY # None))
            => (picked.called /\ proxy = picked.got)

\* C11: when the pool query made after a failed request returns nothing the
\* fetch goes on and the next request is direct, the route that failed being
\* dropped; that request is one of the budget: every failed request has been
\* counted, whatever the pool returned, and the fetch gives up at the failure
\* that follows max_proxy_attempts retries and at no other.
C11_DirectFallback ==
    /\ (pc = "fetch" /\ picked.called /\ picked.got = None) => proxy = None
    /\ pc = "fetch" => (attempt = requests - quiet /\ attempt <= max_proxy_attempts)
    /\ pc = "fatal" => (attempt = requests - quiet /\ attempt = max_proxy_attempts + 1)

\* The request through the pinned proxy has failed and the pool had nothing:
\* the third request is direct and is the third of the budget.
C11_Witness ==
    /\ pc = "fetch"
    /\ MANUAL_PROXY # None
    /\ attempt = 2
    /\ requests = 2
    /\ picked.called
    /\ picked.got = None
    /\ proxy = None

\* The probes of the current list that returned True, by their place in the
\* order of completion, and the first of them to complete.
OkOrder == {k \in 1..Len(order) : status[order[k]] = "ok"}
FirstOk == order[MinOf(OkOrder)]

\* C12: the proxy pick_free_proxy() returns is the candidate whose probe was
\* the first to complete with success, and the call returns at the moment
\* that probe completes: it waits for no other probe.
C12_FirstCompletionWins ==
    (ppc = "returned" /\ ret # None)
        => /\ ret = WithScheme(pool[FirstOk])
           /\ clock = doneAt[FirstOk]

\* C13: a proxy the call returns is a candidate of this call whose probe
\* returned True, and that probe completed within PICKER_TIMEOUT of the
\* call's start.
C13_VerifiedInBudget ==
    ret # None
        => /\ ppc \in {"exit", "returned"}
           /\ status[taken] = "ok"
           /\ ret = WithScheme(pool[taken])
           /\ doneAt[taken] <= PICKER_TIMEOUT

\* C14: a list whose request raises or answers another status than 200
\* submits no candidate to the executor; the call ends by returning, with
\* None when no list gave a candidate that works.
C14_Isolation ==
    /\ kind \in {"exception", "non200"} => pool = <<>>
    /\ (ppc = "returned" /\ pool = <<>>) => ret = None
    /\ ret # None => status[taken] = "ok"

\* The places where each pattern matches, and among those of _exp_pat the
\* ones findall() reports: a match that starts inside an earlier reported
\* match, which runs to the end of its line, is not found.
ClsAt(text) == {p \in 1..Len(text) : ClsGroup(text, p) > 0}
ExpAt(text) == {p \in 1..Len(text) : ExpGroup(text, p) > 0}
RECURSIVE Reported(_, _)
Reported(text, p) ==
    /\ p \in ExpAt(text)
    /\ \A r \in ExpAt(text) :
        (r < p /\ Reported(text, r)) => LineEnd(text, ExpGroup(text, r)) < p
ExpFound(text) == {p \in ExpAt(text) : Reported(text, p)}
MaxOf(S) == CHOOSE m \in S : \A x \in S : x <= m

\* What _exp_pat captures at p, stripped.
Explained(text, p) ==
    StrStrip(SubSeq(text, ExpGroup(text, p), LineEnd(text, ExpGroup(text, p))))

\* C15 as stated: the label is that of the last place _cls_pat matches at,
\* lowercased, the explanation that of the last place _exp_pat matches at;
\* the confidence is 1.0 exactly when both patterns match somewhere, and the
\* result is (None, None, 0.0) when one of them matches nowhere.
C15_LastOccurrence ==
    parsed # <<>> =>
        /\ parsed[3] = 100 <=> (ClsAt(content) # {} /\ ExpAt(content) # {})
        /\ parsed[3] # 100 => parsed = <<None, None, 0>>
        /\ parsed[3] = 100 =>
            /\ parsed[1] = <<Lower(content[ClsGroup(content, MaxOf(ClsAt(content)))])>>
            /\ parsed[2] = Explained(content, MaxOf(ExpAt(content)))

\* C15 as amended: the label is that of the last match of _cls_pat,
\* lowercased, the explanation the stripped capture of the last match of
\* _exp_pat that findall() reports; the confidence is 1.0 exactly when both
\* patterns match and that capture is not blank, and the result is
\* (None, None, 0.0) otherwise.
C15_LastMatch ==
    parsed # <<>> =>
        LET both == ClsAt(content) # {} /\ ExpAt(content) # {}
            full == both /\ Explained(content, MaxOf(ExpFound(content))) # <<>>
        IN  /\ parsed[3] = 100 <=> full
            /\ ~full => parsed = <<None, None, 0>>
            /\ full =>
                /\ parsed[1] = <<Lower(content[ClsGroup(content, MaxOf(ClsAt(content)))])>>
                /\ parsed[2] = Explained(content, MaxOf(ExpFound(content)))

\* An answer with two explanations on two lines and a label: the second
\* explanation is the one returned.
C15_Witness ==
    /\ content = <<"exp:", "BULLISH", "\n", "exp:", "cls:", "bearish">>
    /\ parsed = <<(<<"bearish">>), <<"cls:", "bearish">>, 100>>

\* C16: whatever send_telegram_message() meets, the call returns and the
\* write of the watermark for the notified post follows (a successful write
\* leaves the store on the id written); the run goes on to the next post,
\* and a run is only ever cut short by the classifier call.
C16_NotifyNeverBlocks ==
    /\ \A k \in 1..Len(notes) :
        (k < Len(notes) \/ pc # "advance")
            => \E w \in 1..Len(writes) : writes[w].id = notes[k].id
    /\ (writes # <<>> /\ writes[Len(writes)].ok) => store = writes[Len(writes)].id
    /\ pc = "crashed" => outcome[idx] = "raised"

\* The alert for the older of two posts was not delivered: the watermark
\* went to its id all the same, and the newer post was classified after it.
C16_Witness ==
    /\ pc = "done"
    /\ Len(posts) = 2
    /\ outcome[2] = "bullish"
    /\ outcome[1] = "neutral"
    /\ Len(notes) = 1
    /\ notes[1].id = posts[2].id
    /\ ~notes[1].sent
    /\ Len(writes) = 2
    /\ writes[1] = [id |-> posts[2].id, ok |-> TRUE]
    /\ store = posts[1].id

StrictlyIncreasing(ids) == \A k \in 1..(Len(ids) - 1) : StrLess(ids[k], ids[k + 1])
NoteIds == [k \in 1..Len(notes) |-> notes[k].id]

\* C17: in a run over a page listed newest first the classifier is called
\* for ids in strictly increasing order and the notifications go out for ids
\* in strictly increasing order, each for the post classified last: nothing
\* is classified or notified after a post with a larger id.
C17_IncreasingOrder ==
    NewestFirst(posts) =>
        /\ StrictlyIncreasing(calls)
        /\ StrictlyIncreasing(NoteIds)
        /\ \A k \in 1..Len(notes) : \E c \in 1..Len(calls) : calls[c] = notes[k].id
        /\ pc \in {"notify", "advance"} => calls[Len(calls)] = post.id
        /\ (pc = "advance" /\ notes # <<>>) => StrLeq(notes[Len(notes)].id, post.id)

\* Two posts, both classified and notified, the older one first.
C17_Witness ==
    /\ pc = "done"
    /\ Len(posts) = 2
    /\ NewestFirst(posts)
    /\ calls = <<posts[2].id, posts[1].id>>
    /\ NoteIds = <<posts[2].id, posts[1].id>>

\* The posts the loop has settled and left behind: the one it is still at,
\* classified but its write not yet made, aside.
Written == Settled \ (IF pc \in {"notify", "advance"} THEN {idx} ELSE {})
\* The loop goes from the last position to the first: the k-th post it
\* settled is the one with k - 1 settled posts at later positions.
KthWritten(k) == CHOOSE i \in Written : Cardinality({j \in Written : j > i}) = k - 1

\* C18: the calls of update_last_processed() in a run are, one for one and
\* in order, the posts of the page that reached a terminal outcome in the
\* run: each such post has an id above the watermark the run read, and
\* either no text or a classification accepted with confidence at least
\* CONFIDENCE_THRESHOLD.  A post whose classification failed gets no write.
C18_WritesSettled ==
    /\ Len(writes) = Cardinality(Written)
    /\ \A k \in 1..Len(writes) : writes[k].id = posts[KthWritten(k)].id
    /\ \A i \in Settled :
        /\ posts[i].id # None
        /\ last_processed = None \/ StrLess(last_processed, posts[i].id)
        /\ outcome[i] = "empty" <=> strip_html(posts[i].content) = <<>>
    /\ pc \in {"notify", "advance"} =>
        (cur[1] \in Labels /\ cur[3] >= CONFIDENCE_THRESHOLD /\ outcome[idx] = cur[1])

\* Two posts above the watermark: the classification of the older one
\* failed, the newer one was classified; one write, for the newer one.
C18_Witness ==
    /\ pc = "done"
    /\ Len(posts) = 2
    /\ last_processed # None
    /\ outcome[2] = "failed"
    /\ outcome[1] = "neutral"
    /\ writes = <<[id |-> posts[1].id, ok |-> TRUE]>>

\* C19: the notification for a bullish or bearish post is attempted before
\* the write for that post, so the stored watermark never covers (is at or
\* above the id of) a post classified bullish or bearish in the run whose
\* notification has not been attempted yet.
C19_NotifiedBeforeCovered ==
    /\ (pc = "advance" /\ Actionable(cur[1]))
        => (notes # <<>> /\ notes[Len(notes)].id = post.id)
    /\ pc = "notify" => (store = None \/ StrLess(store, post.id))

\* C20: whatever the order of the page, and with ids repeated, a successful
\* write in a run whose read of the watermark succeeded stores an id
\* strictly above the one it replaces.
C20_WritesIncrease ==
    [][ (/\ Len(writes') = Len(writes) + 1
         /\ writes'[Len(writes')].ok
         /\ last_processed = startStore)
            => (store = None \/ StrLess(store, store')) ]_vars

\* C21: for truth_social_monitor.main on a page listed newest first that
\* holds the stored watermark's post with several newer posts before it: the
\* first run leaves the watermark on the id of the newest post, and a second
\* run on the same page sends no notification and leaves the watermark as
\* it found it.
C21_OldIdempotent ==
    /\ OldCase => store = posts[1].id
    /\ (repeat /\ prevClean /\ last_processed = startStore)
        => (notes = <<>> /\ store = startStore)

====
